---- MODULE Spec2Model ----
(***************************************************************************)
(* static-dt-rs: a no-alloc parser of flattened devicetree blobs.          *)
(*                                                                         *)
(* The model works on the bytes of the blob.  A byte is a number 0..255, a *)
(* slice is a sequence of bytes (Rust offset i is TLA+ index i+1).         *)
(*                                                                         *)
(* A u32 does not fit TLC's integers (0xD00DFEED > 2^31-1), so a u32 is    *)
(* the pair <<high 16 bits, low 16 bits>> of the number.                   *)
(*                                                                         *)
(* usize is the pointer width of the target.  The model takes the 16-bit   *)
(* targets (UsizeBits), so that every usize fits TLC's integers; `as       *)
(* usize` then keeps the low 16 bits.  The blobs of the model are far      *)
(* smaller than 2^16 bytes, so cursor arithmetic never overflows and is    *)
(* written in plain integers; only Token::prop_u32 takes an index the      *)
(* caller chooses, and its n*4+4 is computed with the width.               *)
(*                                                                         *)
(* A panic (index out of bounds, unwrap of None, arithmetic overflow in a  *)
(* build with overflow checks) is the outcome "Panic" of an operation.     *)
(***************************************************************************)
EXTENDS Integers, Sequences, FiniteSets, TLC

VARIABLES
    fdt,      \* the backing buffer handed to DeviceTree::back
    hdr,      \* ghost: the header fields the buffer was built from
    doc,      \* ghost: the structure-block entries the buffer was built from
    dt,       \* the DeviceTree handle (fdt, structs, strings), once opened
    it,       \* the iterator in use: TokenIterator / HierarchyTokenIterator
    yielded,  \* ghost: what the iterator in use has returned so far
    ret       \* the value the last call returned

vars == <<fdt, hdr, doc, dt, it, yielded, ret>>

----------------------------------------------------------------------------
(* Numbers *)

UsizeBits == 16

RECURSIVE Pow2(_)
Pow2(n) == IF n = 0 THEN 1 ELSE 2 * Pow2(n - 1)

UsizeMod == Pow2(UsizeBits)

\* a u32 from its two 16-bit halves
U32(hi, lo) == <<hi, lo>>

\* `x as usize` for x: u32
ToUsize(x) ==
    IF UsizeBits <= 16 THEN x[2] % UsizeMod
    ELSE (x[1] % Pow2(UsizeBits - 16)) * 65536 + x[2]

\* `x as u32` for a small number x (test fixtures only)
FromNat(x) == U32(x \div 65536, x % 65536)

----------------------------------------------------------------------------
(* src/utils.rs *)

\* Rust's slice index check for buf[offs .. offs+n-1]
InBounds(buf, offs, n) == offs + n <= Len(buf)

\* big-endian u32 at offs; the caller has checked InBounds(buf, offs, 4)
read_fdt_u32(buf, offs) ==
    U32(buf[offs + 1] * 256 + buf[offs + 2], buf[offs + 3] * 256 + buf[offs + 4])

\* Option<&[u8]>
SomeStr(s) == [some |-> TRUE, v |-> s]
NoneStr == [some |-> FALSE, v |-> <<>>]

\* the index (from 0) of the first zero byte of buf[offs..], or -1
RECURSIVE FirstZero(_, _, _)
FirstZero(buf, offs, i) ==
    IF offs + i >= Len(buf) THEN -1
    ELSE IF buf[offs + i + 1] = 0 THEN i
    ELSE FirstZero(buf, offs, i + 1)

\* the caller has checked offs <= Len(buf) (buf[offs..] panics otherwise)
get_fdt_string(buf, offs) ==
    LET i == FirstZero(buf, offs, 0)
    IN  IF i < 0 THEN NoneStr ELSE SomeStr(SubSeq(buf, offs + 1, offs + i))

----------------------------------------------------------------------------
(* DeviceTree: header *)

MAGIC == U32(53261, 65261)     \* 0xD00DFEED

NoHandle == [open |-> FALSE, fdt |-> <<>>, structs |-> <<>>, strings |-> <<>>]

\* &fdt[a .. a+n]
Slice_shifted(buf, a, n) == SubSeq(buf, a, a + n - 1)
Slice(buf, a, n) == SubSeq(buf, a + 1, a + n)

magic(d) == read_fdt_u32(d.fdt, 0)
version(d) == read_fdt_u32(d.fdt, 20)
last_comp_version(d) == read_fdt_u32(d.fdt, 24)

\* Result<DeviceTree, Error>, or a panic
BackResult(res, ver, d) ==
    [op |-> "back", opt |-> IF res = "Panic" THEN "Panic" ELSE "Some",
     res |-> res, ver |-> ver, dt |-> d]

\* if dt.last_comp_version() != 16 { return Err(..) }
VersionSupported_min(v) == v[1] > 0 \/ v[2] >= 16
VersionSupported(v) == v = U32(0, 16)

back(buf) ==
    IF ~InBounds(buf, 36, 4) THEN BackResult("Panic", U32(0, 0), NoHandle)
    ELSE
    LET struct_offs == ToUsize(read_fdt_u32(buf, 8))
        strings_offs == ToUsize(read_fdt_u32(buf, 12))
        struct_size == ToUsize(read_fdt_u32(buf, 36))
        string_size == ToUsize(read_fdt_u32(buf, 32))
    IN  IF ~InBounds(buf, struct_offs, struct_size) \/ ~InBounds(buf, strings_offs, string_size)
        THEN BackResult("Panic", U32(0, 0), NoHandle)
        ELSE
        LET d == [open |-> TRUE, fdt |-> buf,
                  structs |-> Slice(buf, struct_offs, struct_size),
                  strings |-> Slice(buf, strings_offs, string_size)]
        IN  IF magic(d) # MAGIC THEN BackResult("InvalidMagic", U32(0, 0), NoHandle)
            ELSE IF ~VersionSupported(last_comp_version(d))
                 THEN BackResult("UnsupportedVersion", last_comp_version(d), NoHandle)
            ELSE BackResult("Ok", U32(0, 0), d)

----------------------------------------------------------------------------
(* Token, Option<Token> *)

\* the reference to the DeviceTree a token carries is left out: there is one
\* handle
Tok(kind, id, offs, name, val) ==
    [kind |-> kind, id |-> id, offs |-> offs, name |-> name, val |-> val]

Invalid(id) == Tok("Invalid", id, 0, <<>>, <<>>)
BeginNode(offs, name) == Tok("BeginNode", U32(0, 0), offs, name, <<>>)
EndNode == Tok("EndNode", U32(0, 0), 0, <<>>, <<>>)
Property(name, val) == Tok("Property", U32(0, 0), 0, name, val)
NoOperation == Tok("NoOperation", U32(0, 0), 0, <<>>, <<>>)
End == Tok("End", U32(0, 0), 0, <<>>, <<>>)

\* Option<Token>, or a panic
Some(t) == [opt |-> "Some", tok |-> t]
None == [opt |-> "None", tok |-> Invalid(U32(0, 0))]
Panic == [opt |-> "Panic", tok |-> Invalid(U32(0, 0))]

----------------------------------------------------------------------------
(* TokenIterator *)

\* TokenIterator { dt: Option<&DeviceTree>, offs }
TokenIterator_new == [dt |-> TRUE, offs |-> 0]
TokenIterator_new_offs(offs) == [dt |-> TRUE, offs |-> offs]
TokenIterator_none == [dt |-> FALSE, offs |-> 0]

\* what next() returns and the iterator it leaves
Step(item, i) == [item |-> item, it |-> i]

\* self.offs += (s.len()/4 + 1)*4
BeginAdvance_exact(len) == ((len + 3) \div 4) * 4
BeginAdvance(len) == (len \div 4 + 1) * 4

\* self.offs += ((len + 3) / 4)*4
PropAdvance_unpadded(len) == len
PropAdvance(len) == ((len + 3) \div 4) * 4

\* token id 1
TokenIterator_next_begin(d, i) ==
    LET o == i.offs + 4
    IN  IF o > Len(d.structs) THEN Step(Panic, [i EXCEPT !.offs = o])
        ELSE LET s == get_fdt_string(d.structs, o)
             IN  IF ~s.some THEN Step(Panic, [i EXCEPT !.offs = o])
                 ELSE LET o2 == o + BeginAdvance(Len(s.v))
                      IN  Step(Some(BeginNode(o2, s.v)), [i EXCEPT !.offs = o2])

\* &dt.structs[tmp..tmp+(len as usize)]
PropValue_padded(structs, tmp, len) == Slice(structs, tmp, PropAdvance(len))
PropValue(structs, tmp, len) == Slice(structs, tmp, len)

\* token id 3
TokenIterator_next_prop(d, i) ==
    LET o == i.offs + 4
    IN  IF ~InBounds(d.structs, o, 4) THEN Step(Panic, [i EXCEPT !.offs = o])
        ELSE
        LET len == ToUsize(read_fdt_u32(d.structs, o))
        IN  IF ~InBounds(d.structs, o + 4, 4) THEN Step(Panic, [i EXCEPT !.offs = o + 4])
            ELSE
            LET nameoff == ToUsize(read_fdt_u32(d.structs, o + 4))
                tmp == o + 8
                o2 == tmp + PropAdvance(len)
            IN  IF nameoff > Len(d.strings) THEN Step(Panic, [i EXCEPT !.offs = tmp])
                ELSE
                LET name == get_fdt_string(d.strings, nameoff)
                IN  IF ~name.some THEN Step(Panic, [i EXCEPT !.offs = tmp])
                    ELSE IF ~InBounds(d.structs, tmp, len)
                         THEN Step(Panic, [i EXCEPT !.offs = o2])
                    ELSE Step(Some(Property(name.v, PropValue(d.structs, tmp, len))),
                              [i EXCEPT !.offs = o2])

\* the arm `x => None` of an unknown token id
UnknownId_surfaced(token_id) == Some(Invalid(token_id))
UnknownId(token_id) == None

TokenIterator_next(d, i) ==
    IF ~i.dt THEN Step(None, i)
    ELSE IF ~InBounds(d.structs, i.offs, 4) THEN Step(Panic, i)
    ELSE
    LET token_id == read_fdt_u32(d.structs, i.offs)
        i4 == [i EXCEPT !.offs = i.offs + 4]
    IN  CASE token_id = U32(0, 1) -> TokenIterator_next_begin(d, i)
          [] token_id = U32(0, 2) -> Step(Some(EndNode), i4)
          [] token_id = U32(0, 3) -> TokenIterator_next_prop(d, i)
          [] token_id = U32(0, 4) -> Step(Some(NoOperation), i4)
          [] token_id = U32(0, 9) -> Step(None, i4)
          [] OTHER -> Step(UnknownId(token_id), i4)

----------------------------------------------------------------------------
(* HierarchyTokenIterator *)

\* HierarchyTokenIterator { tokeniter, level: i16 }
HierarchyTokenIterator_new == [tokeniter |-> TokenIterator_new, level |-> 0]
HierarchyTokenIterator_new_offs(offs) ==
    [tokeniter |-> TokenIterator_new_offs(offs), level |-> 0]
HierarchyTokenIterator_none == [tokeniter |-> TokenIterator_none, level |-> 0]

\* i16 arithmetic: oc says whether the build checks overflow (then it panics);
\* without the check the sum wraps.  -1 stands for the panic, told apart
\* from a level by the flag of I16
I16(x, oc) ==
    IF x > 32767 \/ x < -32768
    THEN IF oc THEN [panic |-> TRUE, v |-> 0]
         ELSE [panic |-> FALSE, v |-> ((x + 32768) % 65536) - 32768]
    ELSE [panic |-> FALSE, v |-> x]

\* if self.level <= 1 { return Some(tok) }
YieldBegin_all(level) == TRUE
YieldBegin(level) == level <= 1

\* if self.level == 0 { return Some(tok) }  (EndNode)
YieldEnd_never(level) == FALSE
YieldEnd_own(level) == level = -1
YieldEnd(level) == level = 0

\* if self.level < 0 { return None }
StopEnd_never(level) == FALSE
StopEnd(level) == level < 0

\* if self.level == 0 { return Some(tok) }  (any other token)
YieldOther_all(level) == TRUE
YieldOther(level) == level = 0

RECURSIVE HierarchyTokenIterator_next(_, _, _)
HierarchyTokenIterator_next(d, h, oc) ==
    LET s == TokenIterator_next(d, h.tokeniter)
        h1 == [h EXCEPT !.tokeniter = s.it]
    IN  IF s.item.opt # "Some" THEN Step(s.item, h1)
        ELSE
        LET tok == s.item.tok
        IN  CASE tok.kind = "BeginNode" ->
                   LET l == I16(h.level + 1, oc)
                       h2 == [h1 EXCEPT !.level = l.v]
                   IN  IF l.panic THEN Step(Panic, h1)
                       ELSE IF YieldBegin(l.v) THEN Step(Some(tok), h2)
                       ELSE HierarchyTokenIterator_next(d, h2, oc)
              [] tok.kind = "EndNode" ->
                   LET l == I16(h.level - 1, oc)
                       h2 == [h1 EXCEPT !.level = l.v]
                   IN  IF l.panic THEN Step(Panic, h1)
                       ELSE IF YieldEnd(l.v) THEN Step(Some(tok), h2)
                       ELSE IF StopEnd(l.v) THEN Step(None, h2)
                       ELSE HierarchyTokenIterator_next(d, h2, oc)
              [] OTHER ->
                   IF YieldOther(h.level) THEN Step(Some(tok), h1)
                   ELSE HierarchyTokenIterator_next(d, h1, oc)

\* Token::into_iter: the token is Copy, and the iterator is built anew from
\* the token's offset at every call
into_iter_consumed(tok) ==
    IF tok.kind = "BeginNode" /\ yielded = <<>>
    THEN HierarchyTokenIterator_new_offs(tok.offs)
    ELSE HierarchyTokenIterator_none
into_iter(tok) ==
    IF tok.kind = "BeginNode" THEN HierarchyTokenIterator_new_offs(tok.offs)
    ELSE HierarchyTokenIterator_none

----------------------------------------------------------------------------
(* Token methods *)

\* what a method returns: Option<Token> in tok, a usize in n, a u32 in u,
\* Option<&[u8]> in s; opt is "Some", "None" or "Panic" (a method that
\* returns a plain value returns "Some")
Res(opt, tok, n, u, s) == [opt |-> opt, tok |-> tok.tok, n |-> n, u |-> u, s |-> s]
ResTok(o) == Res(o.opt, o, 0, U32(0, 0), <<>>)
ResNum(n) == Res("Some", None, n, U32(0, 0), <<>>)
ResU32(u) == Res("Some", None, 0, u, <<>>)
ResStr(s) == Res("Some", None, 0, U32(0, 0), s)
ResNone == ResTok(None)
ResPanic == ResTok(Panic)

\* Token::name
name(tok) ==
    CASE tok.kind \in {"BeginNode", "Property"} -> tok.name
      [] tok.kind = "EndNode" -> <<101, 110, 100, 45, 110, 111, 100, 101>>   \* b"end-node"
      [] tok.kind = "NoOperation" -> <<110, 111, 112>>                       \* b"nop"
      [] tok.kind = "End" -> <<101, 110, 100>>                               \* b"end"
      [] OTHER -> <<45>>                                                     \* b"-"

\* the filter of Token::len
LenCounts_all(tok) == TRUE
LenCounts(tok) == tok.kind \in {"BeginNode", "Property"}

\* .filter(..).count() over a HierarchyTokenIterator
RECURSIVE FilterCount(_, _, _, _)
FilterCount(d, h, oc, acc) ==
    LET s == HierarchyTokenIterator_next(d, h, oc)
    IN  CASE s.item.opt = "Panic" -> ResPanic
          [] s.item.opt = "None" -> ResNum(acc)
          [] OTHER -> FilterCount(d, s.it, oc,
                                  IF LenCounts(s.item.tok) THEN acc + 1 ELSE acc)

\* Token::len
len(d, tok, oc) ==
    CASE tok.kind = "Property" -> ResNum(Len(tok.val))
      [] tok.kind = "BeginNode" -> FilterCount(d, into_iter(tok), oc, 0)
      [] OTHER -> ResNum(0)

\* Token::empty
empty(d, tok, oc) ==
    LET l == len(d, tok, oc)
    IN  IF l.opt = "Panic" THEN ResPanic ELSE ResNum(IF l.n = 0 THEN 1 ELSE 0)

\* Token::prop_u8
prop_u8(tok, n) ==
    IF tok.kind = "Property"
    THEN IF n >= Len(tok.val) THEN ResNone ELSE ResNum(tok.val[n + 1])
    ELSE ResNone

\* usize arithmetic: the value, or panic in a build that checks overflow
Usize(x, oc) ==
    IF x >= UsizeMod
    THEN IF oc THEN [panic |-> TRUE, v |-> 0] ELSE [panic |-> FALSE, v |-> x % UsizeMod]
    ELSE [panic |-> FALSE, v |-> x]

\* if n*4+4 > val.len() { return None }
CellOutOfRange(end, length) == end > length

\* Token::prop_u32
prop_u32(tok, n, oc) ==
    IF tok.kind = "Property"
    THEN LET n4 == Usize(n * 4, oc)
             n44 == Usize(n4.v + 4, oc)
         IN  IF n4.panic \/ n44.panic THEN ResPanic
             ELSE IF CellOutOfRange(n44.v, Len(tok.val)) THEN ResNone
             ELSE IF ~InBounds(tok.val, n4.v, 4) THEN ResPanic
             ELSE ResU32(read_fdt_u32(tok.val, n4.v))
    ELSE ResNone

\* Token::prop_str
prop_str_raw(tok) ==
    IF tok.kind = "Property" THEN ResStr(tok.val) ELSE ResNone
prop_str(tok) ==
    IF tok.kind = "Property"
    THEN LET s == get_fdt_string(tok.val, 0)
         IN  IF s.some THEN ResStr(s.v) ELSE ResNone
    ELSE ResNone

\* the loop of Token::get_node
RECURSIVE FindNode(_, _, _, _)
FindNode(d, h, nm, oc) ==
    LET s == HierarchyTokenIterator_next(d, h, oc)
    IN  IF s.item.opt # "Some" THEN ResTok(s.item)
        ELSE IF s.item.tok.kind = "BeginNode" /\ nm = s.item.tok.name THEN ResTok(s.item)
        ELSE FindNode(d, s.it, nm, oc)

\* Token::get_node
get_node(d, tok, nm, oc) == FindNode(d, into_iter(tok), nm, oc)

\* the loop of Token::get_prop
RECURSIVE FindProp(_, _, _, _)
FindProp(d, h, nm, oc) ==
    LET s == HierarchyTokenIterator_next(d, h, oc)
    IN  IF s.item.opt # "Some" THEN ResTok(s.item)
        ELSE IF s.item.tok.kind = "Property" /\ nm = s.item.tok.name THEN ResTok(s.item)
        ELSE FindProp(d, s.it, nm, oc)

\* Token::get_prop
get_prop_nodes(d, tok, nm, oc) == FindNode(d, into_iter(tok), nm, oc)
get_prop(d, tok, nm, oc) == FindProp(d, into_iter(tok), nm, oc)

----------------------------------------------------------------------------
(* DeviceTree: the tree *)

\* DeviceTree::root: HierarchyTokenIterator::new(self).nth(0).unwrap()
root(d, oc) ==
    LET s == HierarchyTokenIterator_next(d, HierarchyTokenIterator_new, oc)
    IN  IF s.item.opt = "Some" THEN ResTok(s.item) ELSE ResPanic

\* DeviceTree::tokens
tokens == TokenIterator_new

\* the loop of DeviceTree::get_phandle
RECURSIVE PhandleScan(_, _, _, _, _)
PhandleScan(d, i, phandle, last_node, oc) ==
    LET s == TokenIterator_next(d, i)
    IN  IF s.item.opt # "Some" THEN ResTok(s.item)
        ELSE
        LET token == s.item.tok
        IN  CASE token.kind = "BeginNode" -> PhandleScan(d, s.it, phandle, token, oc)
              [] token.kind = "Property" ->
                   LET x == prop_u32(token, 0, oc)
                   IN  IF x.opt = "Some" /\ x.u = phandle THEN ResTok(Some(last_node))
                       ELSE PhandleScan(d, s.it, phandle, last_node, oc)
              [] OTHER -> PhandleScan(d, s.it, phandle, last_node, oc)

\* DeviceTree::get_phandle
get_phandle(d, phandle, oc) ==
    IF phandle = U32(0, 0) THEN ResNone
    ELSE PhandleScan(d, tokens, phandle, Invalid(U32(0, 0)), oc)

\* Token::prop_phandle
prop_phandle(d, tok, oc) ==
    IF tok.kind = "Property"
    THEN LET p == prop_u32(tok, 0, oc)
         IN  CASE p.opt = "Some" -> get_phandle(d, p.u, oc)
               [] p.opt = "None" -> ResNone
               [] OTHER -> ResPanic
    ELSE ResNone

----------------------------------------------------------------------------
(* Blobs: the buffers the program is run on.  A blob is built from a list  *)
(* of structure-block entries and a header, byte for byte as the format    *)
(* lays them out (devicetree specification, chapter 5).                    *)

MaxBody == 4     \* entries in the body of the root node of a well-formed blob
MaxRaw == 2      \* entries of a structure block that need not be a tree

Zeros(n) == [i \in 1..n |-> 0]
Align4(x) == ((x + 3) \div 4) * 4
be32(u) == <<u[1] \div 256, u[1] % 256, u[2] \div 256, u[2] % 256>>

\* entries: begin-node, end-node, property, nop, end (9), an unknown id (7)
eB(nm) == [k |-> "B", name |-> nm, val |-> <<>>]
eE == [k |-> "E", name |-> <<>>, val |-> <<>>]
eP(nm, v) == [k |-> "P", name |-> nm, val |-> v]
eN == [k |-> "N", name |-> <<>>, val |-> <<>>]
eEnd == [k |-> "End", name |-> <<>>, val |-> <<>>]
eBad == [k |-> "Bad", name |-> <<>>, val |-> <<>>]

NameA == <<97>>                                   \* "a"
NameB == <<98, 98, 98, 98>>                       \* "bbbb"
NamePhandle == <<112, 104, 97, 110, 100, 108, 101>>   \* "phandle"
NameNone == <<122>>                               \* "z", the name of nothing

\* the strings block "a\0phandle\0" and the offsets of its names
StringsBlock == NameA \o <<0>> \o NamePhandle \o <<0>>
NameOff(nm) == IF nm = NameA THEN 0 ELSE 2

EncEntry(e) ==
    CASE e.k = "B" -> be32(U32(0, 1)) \o e.name
                      \o Zeros(Align4(Len(e.name) + 1) - Len(e.name))
      [] e.k = "E" -> be32(U32(0, 2))
      [] e.k = "P" -> be32(U32(0, 3)) \o be32(FromNat(Len(e.val)))
                      \o be32(FromNat(NameOff(e.name))) \o e.val
                      \o Zeros(Align4(Len(e.val)) - Len(e.val))
      [] e.k = "N" -> be32(U32(0, 4))
      [] e.k = "End" -> be32(U32(0, 9))
      [] OTHER -> be32(U32(0, 7))

RECURSIVE Encode(_)
Encode(es) == IF es = <<>> THEN <<>> ELSE EncEntry(Head(es)) \o Encode(Tail(es))

Header(magic_, version_, last_comp, layout) ==
    [magic |-> magic_, version |-> version_, last_comp |-> last_comp, layout |-> layout]

\* header (40 bytes), an empty memory reservation block (16 bytes), the
\* structure block, the strings block
Blob(h, es) ==
    LET structs == Encode(es)
        off_struct == 56
        off_strings == off_struct + Len(structs)
        size_struct == Len(structs)
                       + IF h.layout = "structs_oob" THEN Len(StringsBlock) + 4 ELSE 0
        size_strings == Len(StringsBlock) + IF h.layout = "strings_oob" THEN 4 ELSE 0
        all == be32(h.magic) \o be32(FromNat(off_strings + Len(StringsBlock)))
               \o be32(FromNat(off_struct)) \o be32(FromNat(off_strings))
               \o be32(FromNat(40)) \o be32(h.version) \o be32(h.last_comp)
               \o be32(U32(0, 0)) \o be32(FromNat(size_strings))
               \o be32(FromNat(size_struct)) \o Zeros(16) \o structs \o StringsBlock
    IN  IF h.layout = "short" THEN SubSeq(all, 1, 36) ELSE all

GoodHeader == Header(MAGIC, U32(0, 17), U32(0, 16), "ok")

----------------------------------------------------------------------------
(* Opening a blob: DeviceTree::back on buffers with every header *)

NoIter == [kind |-> "none", scope |-> Invalid(U32(0, 0)),
           h |-> [tokeniter |-> [dt |-> FALSE, offs |-> 0], level |-> 0]]
NoCall == [op |-> "none", opt |-> "Some"]

\* a panic ends the program
Crashed == ret.opt = "Panic"

Magics == {MAGIC, U32(53261, 65260), U32(60926, 3536), U32(0, 0)}
LastComps == {U32(0, 16), U32(0, 17), U32(0, 15), U32(0, 2), U32(0, 0),
              U32(16, 0), U32(4096, 0)}
Versions == {U32(0, 17), U32(0, 16)}
Layouts == {"ok", "structs_oob", "strings_oob", "short"}

SmallTree == <<eB(<<>>), eP(NameA, <<0, 0, 0, 1>>), eE, eEnd>>

InitOpen ==
    /\ hdr \in {Header(m, v, l, y) : m \in Magics, v \in Versions,
                                      l \in LastComps, y \in Layouts}
    /\ doc = SmallTree
    /\ fdt = Blob(hdr, doc)
    /\ dt = NoHandle
    /\ it = NoIter
    /\ yielded = <<>>
    /\ ret = NoCall

Back ==
    /\ ~Crashed
    /\ ~dt.open
    /\ ret' = back(fdt)
    /\ dt' = ret'.dt
    /\ UNCHANGED <<fdt, hdr, doc, it, yielded>>

NextOpen == Back

SpecOpen == InitOpen /\ [][NextOpen]_vars

\* C1: when the header-derived bounds lie inside the buffer, back returns a
\* handle iff magic is 0xD00DFEED and last-compatible-version is 16; a wrong
\* magic gives InvalidMagic whatever the version field holds; a right magic
\* with another version gives UnsupportedVersion carrying the field's value
C1_OpenIff ==
    (ret.op = "back" /\ hdr.layout = "ok") =>
        /\ (ret.res = "Ok") <=> (hdr.magic = MAGIC /\ hdr.last_comp = U32(0, 16))
        /\ ret.res = "Ok" => (dt.open /\ dt.fdt = fdt)
        /\ hdr.magic # MAGIC => ret.res = "InvalidMagic"
        /\ (hdr.magic = MAGIC /\ hdr.last_comp # U32(0, 16)) =>
               (ret.res = "UnsupportedVersion" /\ ret.ver = hdr.last_comp)

\* back has refused a blob whose last-compatible-version is 17
C1_Witness ==
    /\ ret.op = "back" /\ hdr.layout = "ok"
    /\ hdr.magic = MAGIC /\ hdr.last_comp = U32(0, 17)
    /\ ret.res = "UnsupportedVersion" /\ ret.ver = U32(0, 17)

\* the header field at byte offset o of the buffer, big-endian (the fields
\* of the buffers opened here are below 2^16)
Field(o) == (fdt[o + 1] * 256 + fdt[o + 2]) * 65536 + fdt[o + 3] * 256 + fdt[o + 4]

\* bytes [a, a+n) of the buffer
Bytes(a, n) == [i \in 1..n |-> fdt[a + i]]

\* C20: with struct offset, struct size, strings offset and strings size
\* read big-endian at bytes 8, 36, 12 and 32, a handle that back returns
\* has structs = buffer[struct offset, +struct size) and strings =
\* buffer[strings offset, +strings size), both inside the buffer; when a
\* range exceeds the buffer back panics, whatever magic and version are
C20_SlicesOrPanic ==
    ret.op = "back" =>
        IF Len(fdt) < 40 THEN ret.res = "Panic"
        ELSE LET so == Field(8)
                 ss == Field(36)
                 to == Field(12)
                 ts == Field(32)
             IN  IF so + ss <= Len(fdt) /\ to + ts <= Len(fdt)
                 THEN /\ ret.res # "Panic"
                      /\ ret.res = "Ok" =>
                             /\ dt.open
                             /\ dt.structs = Bytes(so, ss)
                             /\ dt.strings = Bytes(to, ts)
                             /\ dt.structs = Encode(doc)
                             /\ dt.strings = StringsBlock
                 ELSE ret.res = "Panic" /\ ~dt.open

\* back has panicked on a buffer whose strings range exceeds it, although
\* the magic is wrong
C20_Witness ==
    /\ ret.op = "back"
    /\ hdr.layout = "strings_oob"
    /\ hdr.magic # MAGIC
    /\ Field(12) + Field(32) > Len(fdt)
    /\ ret.res = "Panic"

----------------------------------------------------------------------------
(* Trees: the structure blocks the decoders are run on *)

PA == eP(NameA, <<0, 0, 0, 1, 7>>)        \* a = [00 00 00 01 07]
PH == eP(NamePhandle, <<0, 0, 0, 1>>)     \* phandle = <1>

AlphaTree == {eB(NameA), eB(NameB), eE, eN, PA, PH}
AlphaRaw == {eB(NameA), eE, eN, PA, PH}

Seqs(S, n) == UNION {[1..m -> S] : m \in 0..n}

\* depth before entry j: begin-nodes minus end-nodes among entries 1..j-1
D(es, j) ==
    Cardinality({i \in 1..(j - 1) : es[i].k = "B"})
    - Cardinality({i \in 1..(j - 1) : es[i].k = "E"})

Balanced(es) ==
    /\ \A j \in 1..Len(es) : D(es, j + 1) >= 0
    /\ D(es, Len(es) + 1) = 0

Bodies == {b \in Seqs(AlphaTree, MaxBody) : Balanced(b)}

\* a tree: nops, the root node, end; nops may precede the root
TreeDocs == {pre \o <<eB(<<>>)>> \o b \o <<eE, eEnd>> : pre \in {<<>>, <<eN>>}, b \in Bodies}

\* any entries, ended by end, by an unknown id or by nothing
RawDocs == {r \o t : r \in Seqs(AlphaRaw, MaxRaw), t \in {<<eEnd>>, <<eBad>>, <<>>}}

Docs == TreeDocs \cup RawDocs

\* the end-node matching the begin-node at k (0 if none)
Match(es, k) ==
    LET c == {j \in (k + 1)..Len(es) : es[j].k = "E" /\ D(es, j) = D(es, k) + 1}
    IN  IF c = {} THEN 0 ELSE CHOOSE j \in c : \A i \in c : j <= i

\* a well-formed structure block: nops, one root node with balanced
\* contents, end
WellFormed(es) ==
    /\ Len(es) >= 3
    /\ es[Len(es)].k = "End"
    /\ \A j \in 1..(Len(es) - 1) : es[j].k \in {"B", "E", "P", "N"}
    /\ \E r \in 1..(Len(es) - 2) :
          /\ es[r].k = "B"
          /\ \A j \in 1..(r - 1) : es[j].k = "N"
          /\ Match(es, r) = Len(es) - 1

\* byte offset of entry j in the structure block
Off(es, j) == Len(Encode(SubSeq(es, 1, j - 1)))

\* the token entry j decodes to
TokOf(es, j) ==
    CASE es[j].k = "B" -> BeginNode(Off(es, j + 1), es[j].name)
      [] es[j].k = "E" -> EndNode
      [] es[j].k = "P" -> Property(es[j].name, es[j].val)
      [] OTHER -> NoOperation

\* the begin-node entry a Begin-Node token was decoded from
NodeIdx(es, tok) ==
    CHOOSE k \in 1..Len(es) : es[k].k = "B" /\ Off(es, k + 1) = tok.offs

\* entries directly in the node at k: its properties, nops and the
\* begin-nodes of its sub-nodes
DirectIdx(es, k) ==
    {j \in (k + 1)..(Match(es, k) - 1) : es[j].k # "E" /\ D(es, j) = D(es, k) + 1}

\* the end-nodes that close the sub-nodes of the node at k
ChildEndIdx(es, k) ==
    {j \in (k + 1)..(Match(es, k) - 1) : es[j].k = "E" /\ D(es, j) = D(es, k) + 2}

\* the entries of S in document order, as tokens
RECURSIVE TokSeq(_, _)
TokSeq(es, S) ==
    IF S = {} THEN <<>>
    ELSE LET m == CHOOSE j \in S : \A i \in S : j <= i
         IN  <<TokOf(es, m)>> \o TokSeq(es, S \ {m})

IsPrefix(a, b) == Len(a) <= Len(b) /\ a = SubSeq(b, 1, Len(a))

Kinds(ys, ks) == SelectSeq(ys, LAMBDA t : t.kind \in ks)

InitTree ==
    /\ doc \in Docs
    /\ hdr = GoodHeader
    /\ fdt = Blob(hdr, doc)
    /\ dt = back(fdt).dt
    /\ it = NoIter
    /\ yielded = <<>>
    /\ ret = NoCall

----------------------------------------------------------------------------
(* Iteration: TokenIterator and HierarchyTokenIterator, one next() a step *)

\* it.ended: -1 while next() has not returned None, then the number of
\* tokens yielded before the first None (ghost); ret.first: this next() is
\* the first to return None (ghost)
Iter(kind, scope, h) == [kind |-> kind, scope |-> scope, h |-> h, ended |-> -1]

\* dt.tokens()
Tokens ==
    /\ ~Crashed
    /\ it' = Iter("flat", Invalid(U32(0, 0)), [tokeniter |-> tokens, level |-> 0])
    /\ yielded' = <<>>
    /\ ret' = [op |-> "tokens", opt |-> "Some"]
    /\ UNCHANGED <<fdt, hdr, doc, dt>>

\* HierarchyTokenIterator::new(dt), the iterator root() takes its token from
HierNew ==
    /\ ~Crashed
    /\ it' = Iter("hier", Invalid(U32(0, 0)), HierarchyTokenIterator_new)
    /\ yielded' = <<>>
    /\ ret' = [op |-> "new", opt |-> "Some"]
    /\ UNCHANGED <<fdt, hdr, doc, dt>>

\* tok.into_iter(), tok a token the iterator in use has yielded
IntoIter ==
    /\ ~Crashed
    /\ \E j \in 1..Len(yielded) :
          it' = Iter("scope", yielded[j], into_iter(yielded[j]))
    /\ yielded' = <<>>
    /\ ret' = [op |-> "into_iter", opt |-> "Some"]
    /\ UNCHANGED <<fdt, hdr, doc, dt>>

\* next(&mut self): the iterator in use is left advanced, the item is
\* handed to the caller
Advance_stuck(s, h) ==
    /\ it' = [it EXCEPT !.ended = IF it.ended < 0 /\ s.item.opt = "None"
                                  THEN Len(yielded) ELSE it.ended]
    /\ yielded' = IF s.item.opt = "Some" THEN Append(yielded, s.item.tok) ELSE yielded
    /\ ret' = [op |-> "next", opt |-> s.item.opt, tok |-> s.item.tok,
               first |-> it.ended < 0 /\ s.item.opt = "None"]
    /\ UNCHANGED <<fdt, hdr, doc, dt>>
Advance(s, h) ==
    /\ it' = [it EXCEPT !.h = h,
                        !.ended = IF it.ended < 0 /\ s.item.opt = "None"
                                  THEN Len(yielded) ELSE it.ended]
    /\ yielded' = IF s.item.opt = "Some" THEN Append(yielded, s.item.tok) ELSE yielded
    /\ ret' = [op |-> "next", opt |-> s.item.opt, tok |-> s.item.tok,
               first |-> it.ended < 0 /\ s.item.opt = "None"]
    /\ UNCHANGED <<fdt, hdr, doc, dt>>

\* TokenIterator::next
TokenNext ==
    /\ ~Crashed
    /\ it.kind = "flat"
    /\ LET s == TokenIterator_next(dt, it.h.tokeniter)
       IN  Advance(s, [it.h EXCEPT !.tokeniter = s.it])

\* HierarchyTokenIterator::next
HierNext ==
    /\ ~Crashed
    /\ it.kind \in {"hier", "scope"}
    /\ \E oc \in BOOLEAN :
          LET s == HierarchyTokenIterator_next(dt, it.h, oc)
          IN  Advance(s, s.it)

NextIter == Tokens \/ HierNew \/ IntoIter \/ TokenNext \/ HierNext

SpecIter == InitTree /\ [][NextIter]_vars

\* the tokens yielded up to the first None
Run == IF it.ended < 0 THEN yielded ELSE SubSeq(yielded, 1, it.ended)

\* a scoped iteration over a Begin-Node of a well-formed tree is under way
InScope == WellFormed(doc) /\ it.kind = "scope" /\ it.scope.kind = "BeginNode"

\* the last call was the next() that ended the iteration
JustEnded == ret.op = "next" /\ ret.first

C4_EndsWithOwnEndNode ==
    (InScope /\ it.ended >= 0) =>
        /\ Len(Run) >= 1
        /\ Run[Len(Run)].kind = "EndNode"
        /\ Len(Kinds(Run, {"EndNode"})) = 1

\* C4 amended: every End-Node a scoped iteration over N yields closes a
\* direct sub-node of N (the tokens yielded are N's direct entries and the
\* End-Nodes of its sub-nodes, in document order); the End-Node closing N
\* is not yielded: reading it ends the iteration, the cursor right after it
C4_ChildEndNodesOnly ==
    InScope =>
        LET k == NodeIdx(doc, it.scope)
            want == TokSeq(doc, DirectIdx(doc, k) \cup ChildEndIdx(doc, k))
        IN  /\ IsPrefix(Run, want)
            /\ it.ended < 0 => it.h.level \in {0, 1}
            /\ it.ended >= 0 => Run = want
            /\ JustEnded =>
                   /\ it.h.level = -1
                   /\ it.h.tokeniter.offs = Off(doc, Match(doc, k) + 1)

\* an iteration over a node with two sub-nodes has ended on the node's own
\* End-Node, after yielding the End-Node of each sub-node
C4_Witness ==
    /\ InScope /\ JustEnded
    /\ Len(Kinds(Run, {"EndNode"})) = 2
    /\ Len(Kinds(Run, {"BeginNode"})) = 2
    /\ it.h.level = -1

\* the iteration of HierarchyTokenIterator::new over a well-formed tree
AtTop == WellFormed(doc) /\ it.kind = "hier"

\* the root begin-node of a well-formed tree
RootIdx(es) == CHOOSE r \in 1..Len(es) : es[r].k = "B" /\ D(es, r) = 0

\* C13 as stated: the decoder started at offset 0 over a well-formed tree
\* yields exactly one token, the root Begin-Node, and then ends
C13_RootOnly ==
    AtTop =>
        /\ Len(Run) <= 1
        /\ it.ended >= 0 => Run = <<TokOf(doc, RootIdx(doc))>>

\* C13 amended: the decoder started at offset 0 over a well-formed tree
\* yields the No-Operation tokens before the root, the root Begin-Node and
\* the root's End-Node, and nothing inside the root; it ends on the End
\* token, the cursor right after it
C13_RootBeginAndEnd ==
    AtTop =>
        LET r == RootIdx(doc)
            want == TokSeq(doc, (1..r) \cup {Match(doc, r)})
        IN  /\ it.ended < 0 => ret.opt # "Panic"
            /\ IsPrefix(Run, want)
            /\ it.ended >= 0 => Run = want
            /\ JustEnded =>
                   /\ it.h.level = 0
                   /\ it.h.tokeniter.offs = Len(dt.structs)

\* the decoder has ended over a root with a sub-node, after yielding the
\* root Begin-Node and the root End-Node
C13_Witness ==
    /\ AtTop /\ JustEnded
    /\ \E j \in 1..Len(doc) : doc[j].k = "B" /\ D(doc, j) = 1
    /\ Len(Run) = 2
    /\ Run[1].kind = "BeginNode" /\ Run[2].kind = "EndNode"

\* C15 as stated: once the flat decoder has read token id 9 or an unknown
\* id and returned end-of-sequence, every later next() returns
\* end-of-sequence too: it yields no token and does not panic
C15_EndIsFinal ==
    (it.kind = "flat" /\ it.ended >= 0 /\ ret.op = "next") =>
        /\ ret.opt = "None"
        /\ Len(yielded) = it.ended

\* C16 as stated: once a scoped iteration over a node N has stopped on N's
\* own End-Node (depth negative), no later next() on the same decoder
\* yields a token: what follows N in the block is not surfaced
C16_ScopeStaysStopped ==
    (InScope /\ it.ended >= 0) =>
        /\ Len(yielded) = it.ended
        /\ ret.op = "next" => ret.opt # "Some"

\* the flat decoder's cursor
Cursor == it.h.tokeniter.offs

\* a next() of the flat decoder that yields a token of the kind
FlatYields(kind) ==
    /\ it.kind = "flat" /\ it'.kind = "flat"
    /\ ret'.op = "next" /\ ret'.opt = "Some"
    /\ ret'.tok.kind = kind

\* the least multiple of 4 strictly greater than x
NextMultipleOf4(x) == CHOOSE m \in (x + 1)..(x + 4) : m % 4 = 0

\* C17: for a begin-node entry whose name starts at the 4-aligned offset p
\* and has L bytes before its terminator, the Begin-Node carries the resume
\* offset p + 4*(L div 4 + 1), the least multiple of 4 above the
\* terminator's offset p + L, which is where the next entry of the block
\* begins; the cursor is left there
C17_ResumeOffset ==
    [][FlatYields("BeginNode") =>
          LET p == Cursor + 4
              L == Len(ret'.tok.name)
          IN  /\ p % 4 = 0
              /\ ret'.tok.name = SubSeq(dt.structs, p + 1, p + L)
              /\ dt.structs[p + L + 1] = 0
              /\ ret'.tok.offs = p + 4 * (L \div 4 + 1)
              /\ ret'.tok.offs = NextMultipleOf4(p + L)
              /\ Cursor' = ret'.tok.offs
              /\ \E j \in 1..Len(doc) :
                     /\ doc[j].k = "B" /\ doc[j].name = ret'.tok.name
                     /\ Off(doc, j) = Cursor
                     /\ Off(doc, j + 1) = ret'.tok.offs]_vars

\* the flat decoder has yielded the Begin-Node of a sub-node whose name has
\* 4 bytes: the name starts at 12 and the resume offset is 20
C17_Witness ==
    /\ it.kind = "flat"
    /\ ret.op = "next" /\ ret.opt = "Some"
    /\ ret.tok.kind = "BeginNode" /\ ret.tok.name = NameB
    /\ ret.tok.offs = 20
    /\ Cursor = 20

\* a next() on the decoder in use that does not panic
Stepped ==
    /\ it'.kind = it.kind
    /\ ret'.op = "next" /\ ret'.opt # "Panic"

\* the least c with 4*c >= x
CeilDiv4(x) == CHOOSE c \in 0..x : 4 * c >= x /\ 4 * (c - 1) < x

\* C18: the cursor of a token decoder started at offset 0 (tokens()) or at
\* the resume offset of a Begin-Node (into_iter) is a multiple of 4 before
\* and after every step, is strictly greater after a step that yields a
\* token, and after a Property of L bytes whose value starts at q is
\* q + 4*ceil(L/4)
C18_CursorAligned ==
    [][Stepped =>
          /\ Cursor % 4 = 0 /\ Cursor' % 4 = 0
          /\ ret'.opt = "Some" => Cursor' > Cursor
          /\ FlatYields("Property") =>
                 LET q == Cursor + 12
                     L == Len(ret'.tok.val)
                 IN  /\ read_fdt_u32(dt.structs, Cursor + 4) = FromNat(L)
                     /\ ret'.tok.val = SubSeq(dt.structs, q + 1, q + L)
                     /\ Cursor' = q + 4 * CeilDiv4(L)]_vars

\* the flat decoder has yielded a property of 5 bytes whose value starts at
\* 20: the cursor is 28, past 3 bytes of padding
C18_Witness ==
    /\ it.kind = "flat"
    /\ ret.op = "next" /\ ret.opt = "Some"
    /\ ret.tok.kind = "Property" /\ Len(ret.tok.val) = 5
    /\ Cursor = 28

----------------------------------------------------------------------------
(* Navigation: the methods of Token and DeviceTree, one call a step *)

\* the tokens a caller can hold: those dt.tokens() yields
RECURSIVE FlatToks(_, _)
FlatToks(d, i) ==
    LET s == TokenIterator_next(d, i)
    IN  IF s.item.opt # "Some" THEN {} ELSE {s.item.tok} \cup FlatToks(d, s.it)

Held == FlatToks(dt, tokens)

LookupNames == {NameA, NameB, NamePhandle, NameNone}
Phandles == {U32(0, 0), U32(0, 1), U32(0, 2)}

\* the call made (op, receiver, name, phandle) and what it returned
NavCall(op, recv, nm, v, r) ==
    [op |-> op, recv |-> recv, nm |-> nm, v |-> v,
     opt |-> r.opt, tok |-> r.tok, n |-> r.n, u |-> r.u, s |-> r.s]

NoTok == Invalid(U32(0, 0))

Returns(c) == ret' = c /\ UNCHANGED <<fdt, hdr, doc, dt, it, yielded>>

\* a behaviour is one call on the opened handle: no call writes fdt or dt,
\* so a later call is given what the first is given
Ready == ret.op = "none"

Root ==
    /\ Ready
    /\ \E oc \in BOOLEAN :
          Returns(NavCall("root", NoTok, <<>>, U32(0, 0), root(dt, oc)))

Length ==
    /\ Ready
    /\ \E tok \in Held, oc \in BOOLEAN :
          Returns(NavCall("len", tok, <<>>, U32(0, 0), len(dt, tok, oc)))

GetNode ==
    /\ Ready
    /\ \E tok \in Held, nm \in LookupNames, oc \in BOOLEAN :
          Returns(NavCall("get_node", tok, nm, U32(0, 0), get_node(dt, tok, nm, oc)))

GetProp ==
    /\ Ready
    /\ \E tok \in Held, nm \in LookupNames, oc \in BOOLEAN :
          Returns(NavCall("get_prop", tok, nm, U32(0, 0), get_prop(dt, tok, nm, oc)))

PropPhandle ==
    /\ Ready
    /\ \E tok \in Held, oc \in BOOLEAN :
          Returns(NavCall("prop_phandle", tok, <<>>, U32(0, 0), prop_phandle(dt, tok, oc)))

GetPhandle ==
    /\ Ready
    /\ \E v \in Phandles, oc \in BOOLEAN :
          Returns(NavCall("get_phandle", NoTok, <<>>, v, get_phandle(dt, v, oc)))

NextNav == Root \/ Length \/ GetNode \/ GetProp \/ PropPhandle \/ GetPhandle

SpecNav == InitTree /\ [][NextNav]_vars

\* the last call was made on a Begin-Node of a well-formed tree
OnNode == WellFormed(doc) /\ ret.recv.kind = "BeginNode"

Least(S) == CHOOSE j \in S : \A i \in S : j <= i

\* C2 as stated: root() of a well-formed structure block, nops wherever the
\* format admits them, returns a Begin-Node
C2_RootIsBeginNode ==
    (ret.op = "root" /\ WellFormed(doc)) =>
        (ret.opt = "Some" /\ ret.tok.kind = "BeginNode")

\* C5: len() of a Begin-Node N is the number of sub-node Begin-Nodes and
\* Properties directly in N; nops, End-Nodes and what is nested in a child
\* do not count
C5_LenCountsDirectChildren ==
    (ret.op = "len" /\ OnNode) =>
        LET k == NodeIdx(doc, ret.recv)
        IN  /\ ret.opt = "Some"
            /\ ret.n = Cardinality({j \in DirectIdx(doc, k) : doc[j].k \in {"B", "P"}})

\* len() returned 1 for a node that holds a nop and one sub-node with a
\* property of its own
C5_Witness ==
    /\ ret.op = "len" /\ OnNode /\ ret.opt = "Some" /\ ret.n = 1
    /\ LET k == NodeIdx(doc, ret.recv)
       IN  /\ \E j \in DirectIdx(doc, k) : doc[j].k = "N"
           /\ \E c \in DirectIdx(doc, k) :
                 /\ doc[c].k = "B"
                 /\ \E g \in (c + 1)..(Match(doc, c) - 1) : doc[g].k = "P"

\* C8: get_node / get_prop on a Begin-Node N return the first direct
\* sub-node / property of N with the name, never one nested in a child, and
\* None when no direct entry matches or the receiver is no Begin-Node
C8_FindFirstDirect ==
    (ret.op \in {"get_node", "get_prop"} /\ WellFormed(doc)) =>
        IF ret.recv.kind = "BeginNode"
        THEN LET k == NodeIdx(doc, ret.recv)
                 kind == IF ret.op = "get_node" THEN "B" ELSE "P"
                 c == {j \in DirectIdx(doc, k) : doc[j].k = kind /\ doc[j].name = ret.nm}
             IN  IF c = {} THEN ret.opt = "None"
                 ELSE ret.opt = "Some" /\ ret.tok = TokOf(doc, Least(c))
        ELSE ret.opt = "None"

\* get_node returned the first of two direct sub-nodes of the same name
C8_Witness ==
    /\ ret.op = "get_node" /\ OnNode /\ ret.opt = "Some"
    /\ LET k == NodeIdx(doc, ret.recv)
       IN  \E i, j \in DirectIdx(doc, k) :
              /\ i < j
              /\ doc[i].k = "B" /\ doc[i].name = ret.nm
              /\ doc[j].k = "B" /\ doc[j].name = ret.nm
              /\ ret.tok.offs = Off(doc, i + 1)

\* get_prop returned None for a name that only a property inside a child has
C8_WitnessNested ==
    /\ ret.op = "get_prop" /\ OnNode /\ ret.opt = "None"
    /\ LET k == NodeIdx(doc, ret.recv)
       IN  \E c \in DirectIdx(doc, k) :
              /\ doc[c].k = "B"
              /\ \E g \in (c + 1)..(Match(doc, c) - 1) :
                    doc[g].k = "P" /\ doc[g].name = ret.nm


\* the node an entry is directly in
Owner(es, j) ==
    LET c == {k \in 1..(j - 1) : es[k].k = "B" /\ Match(es, k) > j}
    IN  CHOOSE k \in c : \A i \in c : i <= k

\* the nodes that declare phandle v: those with a property phandle = <v>
Declarers(es, v) ==
    {Owner(es, j) : j \in {i \in 1..Len(es) :
        es[i].k = "P" /\ es[i].name = NamePhandle /\ es[i].val = be32(v)}}

\* C7 as stated: prop_phandle on a property whose first cell is the phandle
\* v (here 1) returns the node that declares phandle v, wherever that node
\* stands and whatever other properties begin with v
C7_PhandleResolvesToDeclarer ==
    (/\ ret.op = "prop_phandle" /\ WellFormed(doc)
     /\ ret.recv.kind = "Property" /\ ret.recv.name # NamePhandle
     /\ Len(ret.recv.val) >= 4 /\ SubSeq(ret.recv.val, 1, 4) = be32(U32(0, 1))
     /\ Cardinality(Declarers(doc, U32(0, 1))) = 1) =>
        /\ ret.opt = "Some"
        /\ ret.tok = TokOf(doc, CHOOSE k \in Declarers(doc, U32(0, 1)) : TRUE)

\* the properties whose first cell is v
FirstCellIs(es, v) ==
    {j \in 1..Len(es) : /\ es[j].k = "P" /\ Len(es[j].val) >= 4
                         /\ SubSeq(es[j].val, 1, 4) = be32(v)}

\* C21 as stated: get_phandle(v) on a well-formed tree returns the node that
\* directly contains the first Property, in document order, whose first
\* cell is v (the owner, also when the property follows a sub-node in the
\* owner's body), and nothing when v is 0 or no Property has first cell v
C21_PhandleOwner ==
    (ret.op = "get_phandle" /\ WellFormed(doc)) =>
        LET M == FirstCellIs(doc, ret.v)
        IN  IF ret.v = U32(0, 0) \/ M = {}
            THEN ret.opt = "None"
            ELSE /\ ret.opt = "Some"
                 /\ ret.tok = TokOf(doc, Owner(doc, Least(M)))

\* C10 as stated: no call returns an Invalid token, whatever the structure
\* block
C10_NoInvalidToken ==
    (ret.op \in {"root", "get_node", "get_prop", "prop_phandle", "get_phandle"}
     /\ ret.opt = "Some") =>
        ret.tok.kind \in {"BeginNode", "EndNode", "Property", "NoOperation"}

----------------------------------------------------------------------------
(* Names: scoped iteration against get_node / get_prop *)

NameUniverse == LookupNames \cup {<<>>, name(EndNode), name(NoOperation)}

\* the names get_node or get_prop find in tok
Found(tok, oc) ==
    {s \in NameUniverse : \/ get_node(dt, tok, s, oc).opt = "Some"
                          \/ get_prop(dt, tok, s, oc).opt = "Some"}

\* C9 as stated: the names of the tokens a scoped iteration over N yields
\* are the names get_node or get_prop find in N
C9_NamesRoundTrip ==
    (InScope /\ it.ended >= 0) =>
        \A oc \in BOOLEAN :
            {name(Run[i]) : i \in 1..Len(Run)} = Found(it.scope, oc)

\* C9 amended: the names of the Begin-Node and Property tokens a scoped
\* iteration over N yields are the names get_node or get_prop find in N
C9_NodeAndPropertyNames ==
    (InScope /\ it.ended >= 0) =>
        \A oc \in BOOLEAN :
            {name(Run[i]) : i \in {j \in 1..Len(Run) :
                                     Run[j].kind \in {"BeginNode", "Property"}}}
            = Found(it.scope, oc)

\* an iteration has ended that yielded a sub-node, its End-Node, a property
\* of another name and a nop; both names are found
C9_Witness ==
    /\ InScope /\ JustEnded
    /\ Len(Kinds(Run, {"BeginNode"})) = 1 /\ Len(Kinds(Run, {"EndNode"})) = 1
    /\ Len(Kinds(Run, {"Property"})) = 1 /\ Len(Kinds(Run, {"NoOperation"})) = 1
    /\ Cardinality(Found(it.scope, FALSE)) = 2

----------------------------------------------------------------------------
(* Properties: the typed reads of a Property token *)

MaxVal == 8      \* bytes of the property's value

ValueBytes == {0, 255}

PropDocs == {<<eB(<<>>), eP(NameA, v), eE, eEnd>> : v \in Seqs(ValueBytes, MaxVal)}

InitProp ==
    /\ doc \in PropDocs
    /\ hdr = GoodHeader
    /\ fdt = Blob(hdr, doc)
    /\ dt = back(fdt).dt
    /\ it = NoIter
    /\ yielded = <<>>
    /\ ret = NoCall

\* dt.root().get_prop(b"a").unwrap()
TheProp == get_prop(dt, root(dt, FALSE).tok, NameA, FALSE).tok

\* the indexes tried: the first cells, and those around the overflow of n*4
\* and of n*4+4
CellIndexes ==
    {0, 1, 2, 3, UsizeMod \div 4 - 1, UsizeMod \div 4, UsizeMod \div 4 + 1,
     UsizeMod \div 2, UsizeMod - 1}

PropCall(op, recv, i, r) ==
    [op |-> op, recv |-> recv, i |-> i,
     opt |-> r.opt, tok |-> r.tok, n |-> r.n, u |-> r.u, s |-> r.s]

PropU32 ==
    /\ Ready
    /\ \E t \in {TheProp}, i \in CellIndexes, oc \in BOOLEAN :
          Returns(PropCall("prop_u32", t, i, prop_u32(t, i, oc)))

PropU8 ==
    /\ Ready
    /\ \E t \in {TheProp}, i \in 0..(MaxVal + 1) :
          Returns(PropCall("prop_u8", t, i, prop_u8(t, i)))

\* the receivers of len, empty and prop_str: the tokens dt.tokens() yields
\* (the root Begin-Node, the property, the End-Node) and a No-Operation
PropReceivers == Held \cup {NoOperation}

PropLen ==
    /\ Ready
    /\ \E t \in PropReceivers, oc \in BOOLEAN :
          Returns(PropCall("len", t, 0, len(dt, t, oc)))

PropEmpty ==
    /\ Ready
    /\ \E t \in PropReceivers, oc \in BOOLEAN :
          Returns(PropCall("empty", t, 0, empty(dt, t, oc)))

PropStr ==
    /\ Ready
    /\ \E t \in PropReceivers :
          Returns(PropCall("prop_str", t, 0, prop_str(t)))

NextProp == PropU32 \/ PropU8 \/ PropLen \/ PropEmpty \/ PropStr

SpecProp == InitProp /\ [][NextProp]_vars

\* C6 as stated: for a property of L bytes and every index n, prop_u32(n)
\* returns nothing when n*4+4 > L and otherwise the big-endian value of
\* bytes 4n..4n+3
C6_CellOrNothing ==
    ret.op = "prop_u32" =>
        LET v == doc[2].val
            n == ret.i
        IN  IF n * 4 + 4 > Len(v) THEN ret.opt = "None"
            ELSE /\ ret.opt = "Some"
                 /\ ret.u = U32(v[4 * n + 1] * 256 + v[4 * n + 2],
                                v[4 * n + 3] * 256 + v[4 * n + 4])

\* the offset in the structure block of the value of the property of PropDocs:
\* the token id and the 8-byte length/name-offset header precede it
ValueOff == Off(doc, 2) + 12

\* C11: the value of a decoded Property is exactly the L bytes after the
\* 8-byte length/name-offset header, where L is the entry's length field,
\* padding excluded; len() returns L and empty() is true iff L = 0
C11_ExactValue ==
    (ret.op \in {"len", "empty"} /\ ret.recv.kind = "Property") =>
        LET L == Len(doc[2].val)
        IN  /\ read_fdt_u32(dt.structs, ValueOff - 8) = FromNat(L)
            /\ ret.recv.val = SubSeq(dt.structs, ValueOff + 1, ValueOff + L)
            /\ ret.recv.val = doc[2].val
            /\ ret.opt = "Some"
            /\ ret.op = "len" => ret.n = L
            /\ ret.op = "empty" => (ret.n = 1 <=> L = 0)

\* len() on a property of 5 bytes, whose entry carries 3 bytes of padding
C11_Witness ==
    /\ ret.op = "len"
    /\ ret.recv.kind = "Property"
    /\ Len(doc[2].val) = 5
    /\ ret.n = 5

\* the leading string of a value: the bytes before its first zero byte
HasZero(v) == \E k \in 1..Len(v) : v[k] = 0
UpToZero(v) == SubSeq(v, 1, (CHOOSE k \in 1..Len(v) :
                                 v[k] = 0 /\ \A j \in 1..(k - 1) : v[j] # 0) - 1)

\* C12: prop_str() of a Property returns the value's bytes before its first
\* zero byte, nothing when the value holds no zero byte (the empty value
\* included) or the token is no Property, and never panics
C12_LeadingString ==
    ret.op = "prop_str" =>
        IF ret.recv.kind = "Property" /\ HasZero(ret.recv.val)
        THEN ret.opt = "Some" /\ ret.s = UpToZero(ret.recv.val)
        ELSE ret.opt = "None"

\* a string of two bytes followed by its terminator and further bytes
C12_Witness ==
    /\ ret.op = "prop_str"
    /\ ret.recv.kind = "Property"
    /\ ret.recv.val = <<255, 255, 0, 255, 0>>
    /\ ret.s = <<255, 255>>

----------------------------------------------------------------------------
(* Repetition: calls made again, in any order, on one handle *)

\* a root with a phandle and a sub-node with a property
RepeatTree == <<eB(<<>>), PH, eB(NameA), PA, eE, eE, eEnd>>

\* the same without the root's End-Node and the End token: the scans of the
\* root run off the block
RepeatDocs == {RepeatTree, SubSeq(RepeatTree, 1, Len(RepeatTree) - 2)}

InitRepeat ==
    /\ doc \in RepeatDocs
    /\ hdr = GoodHeader
    /\ fdt = Blob(hdr, doc)
    /\ dt = back(fdt).dt
    /\ it = NoIter
    /\ yielded = <<>>
    /\ ret = NoCall

\* the call made: its method, receiver, arguments and build, and its result
Call(op, recv, nm, v, i, oc, r) ==
    [op |-> op, recv |-> recv, nm |-> nm, v |-> v, i |-> i, oc |-> oc,
     opt |-> r.opt, tok |-> r.tok, n |-> r.n, u |-> r.u, s |-> r.s]

\* the caller may keep a result (in yielded) to compare later ones with;
\* no method takes the handle or the token by mutable reference
Again(c) ==
    /\ ~Crashed
    /\ ret' = c
    /\ yielded' \in IF yielded = <<>> THEN {<<>>, <<c>>} ELSE {yielded}
    /\ UNCHANGED <<fdt, hdr, doc, dt, it>>

\* the build: overflow checks on or off, the same at every call
Build == IF yielded = <<>> THEN BOOLEAN ELSE {yielded[1].oc}

RepeatNames == {NameA, NameNone}

AgainRoot ==
    \E oc \in Build :
        Again(Call("root", NoTok, <<>>, U32(0, 0), 0, oc, root(dt, oc)))

AgainLen ==
    \E t \in Held, oc \in Build :
        Again(Call("len", t, <<>>, U32(0, 0), 0, oc, len(dt, t, oc)))

AgainGetNode ==
    \E t \in Held, nm \in RepeatNames, oc \in Build :
        Again(Call("get_node", t, nm, U32(0, 0), 0, oc, get_node(dt, t, nm, oc)))

AgainGetProp ==
    \E t \in Held, nm \in RepeatNames, oc \in Build :
        Again(Call("get_prop", t, nm, U32(0, 0), 0, oc, get_prop(dt, t, nm, oc)))

AgainPropU8 ==
    \E t \in Held, i \in {4}, oc \in Build :
        Again(Call("prop_u8", t, <<>>, U32(0, 0), i, oc, prop_u8(t, i)))

AgainPropU32 ==
    \E t \in Held, i \in {0, UsizeMod \div 4}, oc \in Build :
        Again(Call("prop_u32", t, <<>>, U32(0, 0), i, oc, prop_u32(t, i, oc)))

AgainPropStr ==
    \E t \in Held, oc \in Build :
        Again(Call("prop_str", t, <<>>, U32(0, 0), 0, oc, prop_str(t)))

AgainPropPhandle ==
    \E t \in Held, oc \in Build :
        Again(Call("prop_phandle", t, <<>>, U32(0, 0), 0, oc, prop_phandle(dt, t, oc)))

AgainGetPhandle ==
    \E v \in {U32(0, 1), U32(0, 2)}, oc \in Build :
        Again(Call("get_phandle", NoTok, <<>>, v, 0, oc, get_phandle(dt, v, oc)))

NextRepeat ==
    \/ AgainRoot \/ AgainLen \/ AgainGetNode \/ AgainGetProp \/ AgainPropU8
    \/ AgainPropU32 \/ AgainPropStr \/ AgainPropPhandle \/ AgainGetPhandle

SpecRepeat == InitRepeat /\ [][NextRepeat]_vars

SameCall(a, b) ==
    /\ a.op = b.op /\ a.recv = b.recv
    /\ a.nm = b.nm /\ a.v = b.v /\ a.i = b.i

SameResult(a, b) ==
    /\ a.opt = b.opt /\ a.tok = b.tok
    /\ a.n = b.n /\ a.u = b.u /\ a.s = b.s

----------------------------------------------------------------------------
(* Traversals: the loops that drive a decoder to its end *)

\* no loop is under way
Idle == it.kind = "none" /\ ~Crashed

\* a loop is under way: it calls next() until None, unless it returns early
Looping == it.kind # "none" /\ it.ended < 0 /\ ~Crashed

\* `for tok in self.tokens()`: a flat iteration, the loop of get_phandle
LoopTokens == Idle /\ Tokens

\* HierarchyTokenIterator::new(self), which root() takes its token from
LoopHier == Idle /\ HierNew

\* `for tok in self.into_iter()`: a scoped iteration, the loop of len,
\* get_node and get_prop, on a token the caller holds
LoopInto ==
    /\ Idle
    /\ \E t \in Held : it' = Iter("scope", t, into_iter(t))
    /\ yielded' = <<>>
    /\ ret' = [op |-> "into_iter", opt |-> "Some"]
    /\ UNCHANGED <<fdt, hdr, doc, dt>>

\* the loop's call of TokenIterator::next
LoopTokenNext ==
    /\ Looping
    /\ it.kind = "flat"
    /\ \E s \in {TokenIterator_next(dt, it.h.tokeniter)} :
          Advance(s, [it.h EXCEPT !.tokeniter = s.it])

\* the loop's call of HierarchyTokenIterator::next
LoopHierNext ==
    /\ Looping
    /\ it.kind \in {"hier", "scope"}
    /\ \E oc \in BOOLEAN :
          \E s \in {HierarchyTokenIterator_next(dt, it.h, oc)} :
              Advance(s, s.it)

\* `return Some(tok)` out of the loop of get_node, get_prop or get_phandle,
\* or nth(0) of root(): the loop ends on a token it was given
LoopReturn ==
    /\ Looping
    /\ ret.op = "next" /\ ret.opt = "Some"
    /\ it' = [it EXCEPT !.ended = Len(yielded)]
    /\ ret' = [op |-> "return", opt |-> "Some", tok |-> ret.tok, first |-> FALSE]
    /\ UNCHANGED <<fdt, hdr, doc, dt, yielded>>

NextTraverse ==
    \/ LoopTokens \/ LoopHier \/ LoopInto
    \/ LoopTokenNext \/ LoopHierNext \/ LoopReturn

\* LoopHierNext is enabled exactly when a loop over a hierarchy iterator is
\* under way (next() always returns, and the step changes it or ret)
HierLooping == Looping /\ it.kind \in {"hier", "scope"}

\* a loop that has not ended calls next() again: weak fairness of
\* LoopTokenNext and of LoopHierNext, the latter spelled out with HierLooping
\* for ENABLED <<LoopHierNext>>_vars
SpecTraverse ==
    /\ InitTree
    /\ [][NextTraverse]_vars
    /\ WF_vars(LoopTokenNext)
    /\ ([]<>(~HierLooping) \/ []<><<LoopHierNext>>_vars)

\* the loop has ended: end-of-sequence, a result, or a panic
Ended == Crashed \/ (it.kind # "none" /\ it.ended >= 0)

\* C19: every traversal of a structure block, well-formed or not, ends:
\* a next() that yields a token leaves the cursor strictly greater and
\* within the block (or its last 3 bytes of missing padding), any other
\* next() ends the sequence or panics, and a loop under way reaches
\* end-of-sequence, a result or a panic
C19_TraversalsEnd ==
    /\ [][Stepped =>
             IF ret'.opt = "Some"
             THEN Cursor' > Cursor /\ Cursor' <= Len(dt.structs) + 3
             ELSE it'.ended >= 0]_vars
    /\ Looping ~> Ended

\* a scoped iteration over a node of a block without end-nodes has run off
\* the block and panicked
C19_Witness ==
    /\ it.kind = "scope" /\ it.scope.kind = "BeginNode"
    /\ ~WellFormed(doc)
    /\ ret.op = "next" /\ Crashed

====
